---- MODULE Spec2Model ----
(***************************************************************************)
(* Model of src/arithmetic_circuit.rs: a PLONKish arithmetisation of       *)
(* z = x^2 * y^2 + c.  ArithmeticCircuit::configure declares the columns   *)
(* l, r, o (advice), sl, sr, so, sm, sc (fixed), PI (instance) and one     *)
(* gate; ArithmeticChip offers raw_multiply, raw_add, copy and             *)
(* expose_public; ArithmeticCircuit::synthesize composes them.             *)
(*                                                                         *)
(* The layouter (halo2's backend) is the environment: it keeps the regions,*)
(* the copy constraints and the instance bindings the chip asks for, runs  *)
(* a region's assignment closure `passes` times (a measuring floor planner *)
(* runs it twice), and may answer any primitive with an error.             *)
(***************************************************************************)
EXTENDS Integers, Sequences, FiniteSets, TLC

VARIABLES
    p,          \* the characteristic of the field F the circuit is instantiated over
    passes,     \* how many times the layouter runs a region's assignment closure
    circuit,    \* the ArithmeticCircuit built by the caller: [x, y, constant]
    phase,      \* "keygen" (synthesis of without_witnesses()), "prove", "chip"
    pc,         \* position of synthesize: number of chip calls that returned Ok
    result,     \* what synthesize returned: "running", "Ok" or an Error
    regions,    \* layouter: the regions allocated so far, in allocation order
    copies,     \* layouter: the copy constraints registered, in order
    bindings,   \* layouter: the instance bindings <<cell, row>> registered
    ret,        \* the cell triples returned by raw_multiply / raw_add so far
    ops,        \* log of the chip calls made, in call order
    raised,     \* log of the errors the backend answered with
    fcalls,     \* per value-producing closure, how many times it was invoked
    keygen,     \* the trace the shape-only synthesis left behind
    tampered,   \* whether the prover replaced an advice value after synthesis
    pi,         \* the instance column handed to validation
    verdict     \* the outcome of validation: "none", "ok", "fail"

vars == <<p, passes, circuit, phase, pc, result, regions, copies, bindings,
          ret, ops, raised, fcalls, keygen, tampered, pi, verdict>>

----------------------------------------------------------------------------
(* Bounds of the model *)

MaxPrime == 6
MaxChipPrime == 3
MaxPasses == 2
MaxCalls == 2
MaxRow == 1

IsPrime(n) == n >= 2 /\ \A d \in 2..(n - 1) : n % d # 0
Primes == {n \in 2..MaxPrime : IsPrime(n)}
ChipPrimes == {n \in 2..MaxChipPrime : IsPrime(n)}
Rows == 0..MaxRow

----------------------------------------------------------------------------
(* The field F and halo2's Value *)

F == 0..(p - 1)
ONE == 1 % p
Add(a, b) == (a + b) % p
Mul(a, b) == (a * b) % p
Neg(a) == (p - a) % p

Known(v) == [known |-> TRUE, val |-> v]
Unknown == [known |-> FALSE]
Map(v, f) == IF v.known THEN Known(f[v.val]) ELSE Unknown
Zip(a, b) == IF a.known /\ b.known THEN Known(<<a.val, b.val>>) ELSE Unknown

Errors == {"Synthesis", "NotEnoughRowsAvailable"}

----------------------------------------------------------------------------
(* ArithmeticConfig and the gate registered by configure *)

AdviceColumns == <<"l", "r", "o">>
FixedColumns == {"sl", "sr", "so", "sm", "sc"}

\* a Cell: the region that holds it and its column (the row offset is always 0)
CellOf(i, c) == [region |-> i, col |-> c]

\* the value a fixed column holds in the row of region rg; unassigned is zero
FixedAt(rg, c) == IF c \in DOMAIN rg.fixed THEN rg.fixed[c] ELSE 0

\* the value an advice column holds in the row of region rg; unassigned is zero
AdviceAt(rg, c) ==
    IF c \in DOMAIN rg.advice /\ rg.advice[c].known THEN rg.advice[c].val ELSE 0

\* the polynomial of gate "plonk", evaluated on the row of region rg
Gate(rg) ==
    LET l == AdviceAt(rg, "l")
        r == AdviceAt(rg, "r")
        o == AdviceAt(rg, "o")
        sl == FixedAt(rg, "sl")
        sr == FixedAt(rg, "sr")
        so == FixedAt(rg, "so")
        sm == FixedAt(rg, "sm")
        sc == FixedAt(rg, "sc")
    IN  (sl * l + sr * r + l * r * sm + (o * so * Neg(ONE)) + sc) % p

----------------------------------------------------------------------------
(* ArithmeticChip *)

Min(a, b) == IF a < b THEN a ELSE b

\* mutant: the output selector written to the wrong fixed column
MulSelectorsWrongColumn == <<"sm", "sc">>

\* the selectors raw_multiply and raw_add assign, in assignment order
MulSelectors == <<"sm", "so">>
AddSelectors == <<"sl", "sr">>

\* mutant: the selectors are assigned only when the values are known
AssignRowKnownOnly(name, values, selectors, failAt) ==
    LET n == IF failAt = 0 THEN 5 ELSE failAt - 1
    IN  [name |-> name,
         advice |-> [c \in {AdviceColumns[k] : k \in 1..Min(n, 3)} |->
                        IF c = "l" THEN Map(values, [v \in F \X F \X F |-> v[1]])
                        ELSE IF c = "r" THEN Map(values, [v \in F \X F \X F |-> v[2]])
                        ELSE Map(values, [v \in F \X F \X F |-> v[3]])],
         fixed |-> IF values.known
                   THEN [c \in {selectors[k - 3] : k \in 4..n} |-> ONE]
                   ELSE <<>>]

\* The row a region closure writes: lhs, rhs, out, then two selectors set to
\* ONE.  failAt = 0: every primitive succeeds; failAt = k: the k-th primitive
\* returns an error, so only the first k - 1 assignments were made.
AssignRow(name, values, selectors, failAt) ==
    LET n == IF failAt = 0 THEN 5 ELSE failAt - 1
    IN  [name |-> name,
         advice |-> [c \in {AdviceColumns[k] : k \in 1..Min(n, 3)} |->
                        IF c = "l" THEN Map(values, [v \in F \X F \X F |-> v[1]])
                        ELSE IF c = "r" THEN Map(values, [v \in F \X F \X F |-> v[2]])
                        ELSE Map(values, [v \in F \X F \X F |-> v[3]])],
         fixed |-> [c \in {selectors[k - 3] : k \in 4..n} |-> ONE]]

\* raw_multiply: one region "mul"; f is invoked once per run of the region closure
RawMultiply(lay, values, npasses, failAt, err) ==
    LET i == Len(lay.regions) + 1
    IN  [regions |-> Append(lay.regions, AssignRow("mul", values, MulSelectors, failAt)),
         copies |-> lay.copies,
         bindings |-> lay.bindings,
         res |-> IF failAt = 0 THEN "Ok" ELSE err,
         cells |-> [l |-> CellOf(i, "l"), r |-> CellOf(i, "r"), o |-> CellOf(i, "o")],
         finv |-> npasses]

\* raw_add: one region "add"
RawAdd(lay, values, npasses, failAt, err) ==
    LET i == Len(lay.regions) + 1
    IN  [regions |-> Append(lay.regions, AssignRow("add", values, AddSelectors, failAt)),
         copies |-> lay.copies,
         bindings |-> lay.bindings,
         res |-> IF failAt = 0 THEN "Ok" ELSE err,
         cells |-> [l |-> CellOf(i, "l"), r |-> CellOf(i, "r"), o |-> CellOf(i, "o")],
         finv |-> npasses]

\* copy: one region "copy" that assigns nothing and calls constrain_equal(a, b)
Copy(lay, a, b, failAt, err) ==
    [regions |-> Append(lay.regions, [name |-> "copy", advice |-> <<>>, fixed |-> <<>>]),
     copies |-> IF failAt = 0 THEN Append(lay.copies, <<a, b>>) ELSE lay.copies,
     bindings |-> lay.bindings,
     res |-> IF failAt = 0 THEN "Ok" ELSE err]

\* expose_public: layouter.constrain_instance(cell, PI, row); no region
ExposePublic(lay, cell, row, failAt, err) ==
    [regions |-> lay.regions,
     copies |-> lay.copies,
     bindings |-> IF failAt = 0 THEN Append(lay.bindings, <<cell, row>>) ELSE lay.bindings,
     res |-> IF failAt = 0 THEN "Ok" ELSE err]

----------------------------------------------------------------------------
(* ArithmeticCircuit *)

\* without_witnesses: Self::default()
WithoutWitnesses(c) == [x |-> Unknown, y |-> Unknown, constant |-> 0]

\* the circuit synthesize runs on: key generation sees no witness
Self == IF phase = "keygen" THEN WithoutWitnesses(circuit) ELSE circuit

\* the four value-producing closures of synthesize
F0(self) == Map(self.x, [x \in F |-> <<x, x, Mul(x, x)>>])
F1(self) == Map(self.y, [y \in F |-> <<y, y, Mul(y, y)>>])
F2(self) ==
    Map(Zip(self.x, self.y),
        [xy \in F \X F |-> <<Mul(xy[1], xy[1]), Mul(xy[2], xy[2]),
                               Mul(Mul(xy[1], xy[1]), Mul(xy[2], xy[2]))>>])
F3(self) ==
    Map(Zip(self.x, self.y),
        [xy \in F \X F |-> <<Mul(Mul(xy[1], xy[1]), Mul(xy[2], xy[2])),
                               self.constant,
                               Add(Mul(Mul(xy[1], xy[1]), Mul(xy[2], xy[2])),
                                   self.constant)>>])

\* mutant: the left operand of the third product wired to the wrong output
CopyArgsMiswired(step, rt) ==
    CASE step = 1 -> <<rt[1].l, rt[1].r>>
      [] step = 3 -> <<rt[2].l, rt[2].r>>
      [] step = 5 -> <<rt[2].o, rt[3].l>>
      [] step = 6 -> <<rt[2].o, rt[3].r>>
      [] step = 8 -> <<rt[3].o, rt[4].l>>

\* the cells each copy of synthesize names; rt holds the returned triples
CopyArgs(step, rt) ==
    CASE step = 1 -> <<rt[1].l, rt[1].r>>
      [] step = 3 -> <<rt[2].l, rt[2].r>>
      [] step = 5 -> <<rt[1].o, rt[3].l>>
      [] step = 6 -> <<rt[2].o, rt[3].r>>
      [] step = 8 -> <<rt[3].o, rt[4].l>>

\* mutant: the product cell exposed instead of the sum
ExposeArgsProduct(rt) == <<rt[3].o, 0>>

\* the cell and instance row synthesize exposes
ExposeArgs(rt) == <<rt[4].o, 0>>

\* mutant: the error of a chip call is dropped and synthesis goes on
TrySwallow(res, last) == IF last THEN "Ok" ELSE "running"

\* the ? operator: an Err returns from synthesize at once; Ok(()) ends it
Try(res, last) ==
    IF res # "Ok" THEN res ELSE IF last THEN "Ok" ELSE "running"

----------------------------------------------------------------------------
(* Validation of a finished trace: what a backend that checks gate          *)
(* identities, copy constraints and instance bindings reports              *)

CellValue(regs, cell) == AdviceAt(regs[cell.region], cell.col)

GatesHold(regs) == \A i \in DOMAIN regs : Gate(regs[i]) = 0

CopiesHold(regs, cps) ==
    \A j \in DOMAIN cps : CellValue(regs, cps[j][1]) = CellValue(regs, cps[j][2])

BindingsHold(regs, bnd, inst) ==
    \A j \in DOMAIN bnd : CellValue(regs, bnd[j][1]) = inst[bnd[j][2]]

Valid(regs, cps, bnd, inst) ==
    GatesHold(regs) /\ CopiesHold(regs, cps) /\ BindingsHold(regs, bnd, inst)

\* the instance column with row 0 set to v and every other row zero
Instance(v) == [r \in Rows |-> IF r = 0 THEN v ELSE 0]

----------------------------------------------------------------------------
(* Key generation followed by proving: synthesize runs on                  *)
(* circuit.without_witnesses(), then on the circuit itself                 *)

Layouter == [regions |-> regions, copies |-> copies, bindings |-> bindings]
NoOps == [i \in 0..3 |-> 0]

Init ==
    /\ p \in Primes
    /\ passes \in 1..MaxPasses
    /\ circuit \in [x : {Known(v) : v \in F}, y : {Known(v) : v \in F}, constant : F]
    /\ phase = "keygen"
    /\ pc = 0
    /\ result = "running"
    /\ regions = <<>>
    /\ copies = <<>>
    /\ bindings = <<>>
    /\ ret = <<>>
    /\ ops = <<>>
    /\ raised = <<>>
    /\ fcalls = NoOps
    /\ keygen = [regions |-> <<>>, copies |-> <<>>, bindings |-> <<>>]
    /\ tampered = FALSE
    /\ pi = Instance(0)
    /\ verdict = "none"

Running == phase \in {"keygen", "prove"} /\ result = "running"

\* the effect on synthesize of one chip call that answered out
Step(out, entry) ==
    /\ regions' = out.regions
    /\ copies' = out.copies
    /\ bindings' = out.bindings
    /\ ops' = Append(ops, entry)
    /\ raised' = IF out.res = "Ok" THEN raised
                 ELSE Append(raised, [step |-> pc, err |-> out.res])
    /\ result' = Try(out.res, pc = 9)
    /\ pc' = IF result' \in Errors THEN pc ELSE pc + 1
    /\ UNCHANGED <<p, passes, circuit, phase, keygen, tampered, pi, verdict>>

\* a step that calls raw_multiply or raw_add with closure number k
RegionStep(out, name, k) ==
    /\ Step(out, [op |-> name, args |-> <<>>, row |-> 0,
                  out |-> IF out.res = "Ok"
                          THEN <<out.cells.l, out.cells.r, out.cells.o>> ELSE <<>>])
    /\ ret' = IF result' \in Errors THEN ret ELSE Append(ret, out.cells)
    /\ fcalls' = [fcalls EXCEPT ![k] = @ + out.finv]

CopyStep(failAt, err) ==
    LET ab == CopyArgs(pc, ret)
    IN  /\ Step(Copy(Layouter, ab[1], ab[2], failAt, err),
                [op |-> "copy", args |-> ab, row |-> 0, out |-> <<>>])
        /\ UNCHANGED <<ret, fcalls>>

Faults(n) == {[at |-> 0, err |-> "Ok"]} \cup [at : 1..n, err : Errors]

SynMul0 ==
    /\ Running /\ pc = 0
    /\ \E ft \in Faults(5) :
         RegionStep(RawMultiply(Layouter, F0(Self), passes, ft.at, ft.err), "raw_multiply", 0)

SynCopy0 == Running /\ pc = 1 /\ \E ft \in Faults(1) : CopyStep(ft.at, ft.err)

SynMul1 ==
    /\ Running /\ pc = 2
    /\ \E ft \in Faults(5) :
         RegionStep(RawMultiply(Layouter, F1(Self), passes, ft.at, ft.err), "raw_multiply", 1)

SynCopy1 == Running /\ pc = 3 /\ \E ft \in Faults(1) : CopyStep(ft.at, ft.err)

SynMul2 ==
    /\ Running /\ pc = 4
    /\ \E ft \in Faults(5) :
         RegionStep(RawMultiply(Layouter, F2(Self), passes, ft.at, ft.err), "raw_multiply", 2)

SynCopy2a == Running /\ pc = 5 /\ \E ft \in Faults(1) : CopyStep(ft.at, ft.err)

SynCopy2b == Running /\ pc = 6 /\ \E ft \in Faults(1) : CopyStep(ft.at, ft.err)

SynAdd3 ==
    /\ Running /\ pc = 7
    /\ \E ft \in Faults(5) :
         RegionStep(RawAdd(Layouter, F3(Self), passes, ft.at, ft.err), "raw_add", 3)

SynCopy3 == Running /\ pc = 8 /\ \E ft \in Faults(1) : CopyStep(ft.at, ft.err)

SynExpose ==
    /\ Running /\ pc = 9
    /\ \E ft \in Faults(1) :
         LET cr == ExposeArgs(ret)
         IN  /\ Step(ExposePublic(Layouter, cr[1], cr[2], ft.at, ft.err),
                     [op |-> "expose_public", args |-> <<cr[1]>>, row |-> cr[2],
                      out |-> <<>>])
             /\ UNCHANGED <<ret, fcalls>>

\* key generation succeeded: the prover synthesizes the circuit with its witness
StartProve ==
    /\ phase = "keygen" /\ result = "Ok"
    /\ keygen' = Layouter
    /\ phase' = "prove"
    /\ pc' = 0
    /\ result' = "running"
    /\ regions' = <<>>
    /\ copies' = <<>>
    /\ bindings' = <<>>
    /\ ret' = <<>>
    /\ ops' = <<>>
    /\ raised' = <<>>
    /\ fcalls' = NoOps
    /\ UNCHANGED <<p, passes, circuit, tampered, pi, verdict>>

Synthesized == phase = "prove" /\ result = "Ok" /\ verdict = "none"

\* a dishonest prover replaces one advice value of the synthesized trace
Tamper ==
    /\ Synthesized /\ ~tampered
    /\ \E i \in DOMAIN regions :
         \E c \in DOMAIN regions[i].advice :
           \E v \in F \ {AdviceAt(regions[i], c)} :
             regions' = [regions EXCEPT ![i].advice[c] = Known(v)]
    /\ tampered' = TRUE
    /\ UNCHANGED <<p, passes, circuit, phase, pc, result, copies, bindings, ret, ops,
                   raised, fcalls, keygen, pi, verdict>>

\* the verifier checks the trace against public input v in instance row 0
Validate ==
    /\ Synthesized
    /\ \E v \in F :
         /\ pi' = Instance(v)
         /\ verdict' = IF Valid(regions, copies, bindings, Instance(v)) THEN "ok" ELSE "fail"
    /\ UNCHANGED <<p, passes, circuit, phase, pc, result, regions, copies, bindings, ret,
                   ops, raised, fcalls, keygen, tampered>>

Next ==
    \/ SynMul0
    \/ SynCopy0
    \/ SynMul1
    \/ SynCopy1
    \/ SynMul2
    \/ SynCopy2a
    \/ SynCopy2b
    \/ SynAdd3
    \/ SynCopy3
    \/ SynExpose
    \/ StartProve
    \/ Tamper
    \/ Validate

Spec == Init /\ [][Next]_vars

----------------------------------------------------------------------------
(* The chip driven directly: any caller, any triple, any returned cell     *)

InitChip ==
    /\ p \in ChipPrimes
    /\ passes = 1
    /\ circuit = [x |-> Unknown, y |-> Unknown, constant |-> 0]
    /\ phase = "chip"
    /\ pc = 0
    /\ result = "running"
    /\ regions = <<>>
    /\ copies = <<>>
    /\ bindings = <<>>
    /\ ret = <<>>
    /\ ops = <<>>
    /\ raised = <<>>
    /\ fcalls = NoOps
    /\ keygen = [regions |-> <<>>, copies |-> <<>>, bindings |-> <<>>]
    /\ tampered = FALSE
    /\ pi = Instance(0)
    /\ verdict = "none"

CanCall == phase = "chip" /\ Len(ops) < MaxCalls

\* the cells earlier calls returned
Returned == UNION {{ret[j].l, ret[j].r, ret[j].o} : j \in DOMAIN ret}

\* the effect of one direct chip call that answered out
Call(out, entry) ==
    /\ regions' = out.regions
    /\ copies' = out.copies
    /\ bindings' = out.bindings
    /\ ops' = Append(ops, entry)
    /\ result' = out.res
    /\ UNCHANGED <<p, passes, circuit, phase, pc, raised, fcalls, keygen, tampered, pi,
                   verdict>>

ChipRawMultiply ==
    /\ CanCall
    /\ \E a, b, c \in F :
         LET out == RawMultiply(Layouter, Known(<<a, b, c>>), passes, 0, "Ok")
         IN  /\ Call(out, [op |-> "raw_multiply", args |-> <<a, b, c>>, row |-> 0,
                           out |-> <<out.cells.l, out.cells.r, out.cells.o>>])
             /\ ret' = Append(ret, out.cells)

ChipRawAdd ==
    /\ CanCall
    /\ \E a, b, c \in F :
         LET out == RawAdd(Layouter, Known(<<a, b, c>>), passes, 0, "Ok")
         IN  /\ Call(out, [op |-> "raw_add", args |-> <<a, b, c>>, row |-> 0,
                           out |-> <<out.cells.l, out.cells.r, out.cells.o>>])
             /\ ret' = Append(ret, out.cells)

ChipCopy ==
    /\ CanCall
    /\ \E a \in Returned :
         \E b \in Returned \ {a} :
           /\ Call(Copy(Layouter, a, b, 0, "Ok"),
                   [op |-> "copy", args |-> <<a, b>>, row |-> 0, out |-> <<>>])
           /\ UNCHANGED ret

ChipExposePublic ==
    /\ CanCall
    /\ \E cell \in Returned :
         \E row \in Rows :
           /\ Call(ExposePublic(Layouter, cell, row, 0, "Ok"),
                   [op |-> "expose_public", args |-> <<cell>>, row |-> row, out |-> <<>>])
           /\ UNCHANGED ret

NextChip ==
    \/ ChipRawMultiply
    \/ ChipRawAdd
    \/ ChipCopy
    \/ ChipExposePublic

SpecChip == InitChip /\ [][NextChip]_vars

----------------------------------------------------------------------------
(* Claims *)

\* x^2 * y^2 + c for the circuit the caller built
Expected ==
    Add(Mul(Mul(circuit.x.val, circuit.x.val), Mul(circuit.y.val, circuit.y.val)),
        circuit.constant)

\* the trace synthesize left for the witness, untouched by the prover
Honest == phase = "prove" /\ result = "Ok" /\ ~tampered

\* C1 (as claimed): the trace synthesized from (x, y, c) satisfies the gate on
\* every arithmetic row and every copy constraint, and validates against
\* public input x^2 * y^2 + c.
C1_Completeness ==
    Honest => Valid(regions, copies, bindings, Instance(Expected))

\* C2 (as claimed): every assignment the backend accepts has public-input
\* row 0 equal to x^2 * y^2 + constant, x and y being the left cells of the
\* first and second mul regions.
C2_RelationExact ==
    verdict = "ok" =>
        LET xx == AdviceAt(regions[1], "l")
            yy == AdviceAt(regions[3], "l")
        IN  pi[0] = Add(Mul(Mul(xx, xx), Mul(yy, yy)), circuit.constant)

\* C3: with the synthesized trace, every public input v # x^2 * y^2 + c breaks
\* the instance binding made by expose_public, so validation fails.
C3_WrongPublicInputRejected ==
    /\ Honest =>
         \A v \in F \ {Expected} :
            /\ ~BindingsHold(regions, bindings, Instance(v))
            /\ ~Valid(regions, copies, bindings, Instance(v))
    /\ (Honest /\ verdict # "none" /\ pi[0] # Expected) => verdict = "fail"

C3_Witness == Honest /\ verdict = "fail" /\ pi[0] # Expected /\ pi[0] = 2

\* the region a raw_multiply / raw_add call of the log wrote
RegionOfCall(j) == regions[ops[j].out[1].region]

\* C4 (as claimed): for every triple with a + b = c, the row raw_add writes
\* satisfies the gate identity.
C4_AddRowSatisfied ==
    \A j \in DOMAIN ops :
        (ops[j].op = "raw_add" /\ phase = "chip"
            /\ Add(ops[j].args[1], ops[j].args[2]) = ops[j].args[3])
        => Gate(RegionOfCall(j)) = 0

\* C5: raw_multiply accepts every triple (a, b, c); the row it writes holds a,
\* b, c in l, r, o with sm = so = 1 and no other selector; the row satisfies
\* the gate exactly when a * b = c; and a trace with a malformed triple fails
\* validation for every instance column, whatever copies and bindings follow.
C5_MulRowIffProduct ==
    phase = "chip" =>
        \A j \in DOMAIN ops :
            ops[j].op = "raw_multiply" =>
                LET t == ops[j].args
                    rg == RegionOfCall(j)
                IN  /\ ops[j].out # <<>>
                    /\ AdviceAt(rg, "l") = t[1]
                    /\ AdviceAt(rg, "r") = t[2]
                    /\ AdviceAt(rg, "o") = t[3]
                    /\ \A c \in FixedColumns :
                         FixedAt(rg, c) = IF c \in {"sm", "so"} THEN ONE ELSE 0
                    /\ (Gate(rg) = 0) <=> (Mul(t[1], t[2]) = t[3])
                    /\ Mul(t[1], t[2]) # t[3] =>
                         \A inst \in [Rows -> F] :
                            ~Valid(regions, copies, bindings, inst)

\* a malformed triple (2 * 1 # 0) followed by a copy, next to no well-formed one
C5_Witness ==
    /\ phase = "chip" /\ p = 3 /\ Len(ops) = 2
    /\ ops[1].op = "raw_multiply" /\ ops[1].args = <<2, 1, 0>>
    /\ ops[2].op = "copy"

\* C7 (as claimed): each of raw_multiply, raw_add, copy and expose_public
\* allocates exactly one new region per call, so after any sequence of chip
\* calls the number of regions equals the number of calls.
C7_RegionPerCall == phase = "chip" => Len(regions) = Len(ops)

\* what key generation reads of a trace: per region its name, the advice
\* columns it assigns and its fixed cells; the copies; the instance bindings
Shape(lay) ==
    [regions |-> [i \in DOMAIN lay.regions |->
                    [name |-> lay.regions[i].name,
                     cols |-> DOMAIN lay.regions[i].advice,
                     fixed |-> lay.regions[i].fixed]],
     copies |-> lay.copies,
     bindings |-> lay.bindings]

\* C6: the shape-only synthesis and the synthesis with any concrete x, y give
\* the same regions in the same order, the same fixed cells, the same copy
\* constraints and the same instance binding; every advice value of the
\* shape-only run is unknown and every one of the witness run is known.
C6_ShapeIndependent ==
    (phase = "prove" /\ result = "Ok") =>
        /\ Shape(Layouter) = Shape(keygen)
        /\ \A i \in DOMAIN keygen.regions :
             \A c \in DOMAIN keygen.regions[i].advice :
                /\ ~keygen.regions[i].advice[c].known
                /\ regions[i].advice[c].known

C6_Witness ==
    /\ phase = "prove" /\ result = "Ok" /\ ~tampered
    /\ Len(keygen.regions) = 9
    /\ circuit.x.val = 2 /\ circuit.y.val = 3 /\ p = 5

\* C8: an error answered by the backend ends synthesize at that step with
\* that same error and no later chip call is made; synthesize returns Ok only
\* after all ten calls succeeded.
C8_ErrorPropagation ==
    phase \in {"keygen", "prove"} =>
        /\ raised # <<>> =>
              /\ Len(raised) = 1
              /\ result = raised[1].err
              /\ pc = raised[1].step
              /\ Len(ops) = raised[1].step + 1
        /\ result = "Ok" => (raised = <<>> /\ pc = 10 /\ Len(ops) = 10)
        /\ result = "running" => (raised = <<>> /\ Len(ops) = pc)

C8_Witness ==
    /\ phase = "prove" /\ result = "NotEnoughRowsAvailable" /\ pc = 5
    /\ Len(ops) = 6 /\ Len(regions) = 6

Range(sq) == {sq[j] : j \in DOMAIN sq}

\* C9: synthesize calls mul, copy, mul, copy, mul, copy, copy, add, copy,
\* expose_public in this order; every copy and the exposure name only cells an
\* earlier call returned; and at the end the output of mul 1 is copied to the
\* left of mul 3, the output of mul 2 to the right of mul 3, the output of
\* mul 3 to the left of add, and the output of add is bound to instance row 0.
C9_ExplicitWiring ==
    phase \in {"keygen", "prove"} =>
        /\ \A j \in DOMAIN ops :
             /\ ops[j].op =
                  <<"raw_multiply", "copy", "raw_multiply", "copy", "raw_multiply",
                    "copy", "copy", "raw_add", "copy", "expose_public">>[j]
             /\ \A c \in Range(ops[j].args) :
                  \E k \in 1..(j - 1) : c \in Range(ops[k].out)
        /\ result = "Ok" =>
              /\ Len(ops) = 10
              /\ Range(copies) =
                    {<<ops[1].out[1], ops[1].out[2]>>, <<ops[3].out[1], ops[3].out[2]>>,
                     <<ops[1].out[3], ops[5].out[1]>>, <<ops[3].out[3], ops[5].out[2]>>,
                     <<ops[5].out[3], ops[8].out[1]>>}
              /\ bindings = <<<<ops[8].out[3], 0>>>>
              /\ {ops[j].out[1].region : j \in {1, 3, 5, 8}} = {1, 3, 5, 8}

C9_Witness ==
    /\ phase = "prove" /\ result = "Ok" /\ Len(ops) = 10 /\ Len(copies) = 5
    /\ verdict = "none" /\ ~tampered /\ passes = 2

\* C10 (as claimed): during one synthesis each value-producing closure is
\* invoked at most once, and the four are invoked in synthesis order.
C10_ClosureOnce ==
    phase \in {"keygen", "prove"} =>
        /\ \A k \in DOMAIN fcalls : fcalls[k] <= 1
        /\ \A k \in DOMAIN fcalls : (k > 0 /\ fcalls[k] > 0) => fcalls[k - 1] > 0

====
